---- MODULE Spec2Model ----
(***************************************************************************)
(* Model of the autofix agent's patch application and pull-request         *)
(* pipeline: GitHubTool (src/lambda/tools/github_tool.py) driven by        *)
(* execute_agent_actions (src/lambda/agent_orchestrator.py).               *)
(*                                                                         *)
(* A Python string is a sequence of one-character strings, so that         *)
(* startswith, slicing, split and join are computed and not assumed.       *)
(* Python's None is the one-element sequence <<"None">>, which no string   *)
(* of one-character elements equals.                                       *)
(***************************************************************************)
EXTENDS Integers, Sequences, FiniteSets, TLC

VARIABLES
    ptext,          \* _parse_patch alone: the patch_content consumed so far
    pst,            \* _parse_patch alone: files/current_file/current_content/in_hunk
    env,            \* GITHUB_TOKEN, CODEBUILD_PROJECT, S3_BUCKET; repo_context's default_branch, full_name
    agent_response, \* the decision object: can_auto_fix, patch
    pc,             \* position of execute_agent_actions
    results,        \* the dict execute_agent_actions returns
    patch_files,    \* apply_patch: the dict returned by _parse_patch
    idx,            \* apply_patch: index of the file of the loop
    file_info,      \* apply_patch/update_file/_delete_file: the last get_file_content result
    file_results,   \* apply_patch: the list results
    patch_result,   \* the dict apply_patch returned, None before
    tree,           \* remote: the files of the new branch, by path
    branch,         \* remote: "free", "taken" (the name exists already) or "created"
    nsha,           \* remote: number of revision hashes handed out
    faults,         \* remote: number of requests answered with a transient failure
    others,         \* remote: number of writes by other clients on the branch
    log,            \* every request sent, in order, with its answer
    first,          \* apply_patch called again: the branch and the log as the first call left them
    event,          \* webhook: the event lambda_handler is called with
    wenv,           \* webhook: GITHUB_SECRET, ORCHESTRATOR_FUNCTION
    wpc,            \* webhook: position of lambda_handler
    response,       \* webhook: the dict lambda_handler returns
    invoked,        \* webhook: the payloads passed to lambda_client.invoke
    runs,           \* concurrent runs: each run's timestamp, position and results
    refs,           \* concurrent runs: the branch names the remote holds, with the run that created each
    hpc,            \* orchestrator: position of lambda_handler
    decision,       \* orchestrator: the dict call_bedrock_agent returned
    memory,         \* orchestrator: the records put in the memory table
    answer,         \* orchestrator: the dict lambda_handler returns
    bpc,            \* build wait: position of wait_for_build_completion
    clock,          \* build wait: datetime.now() since start_time, in sleep intervals
    timeout,        \* build wait: timeout_seconds, in sleep intervals
    build_status,   \* build wait: the last status a query returned
    completion_result, \* build wait: the dict wait_for_build_completion returns
    polls           \* build wait: the status queries sent

pvars == <<ptext, pst>>

rvars == <<env, agent_response, pc, results, patch_files, idx, file_info,
           file_results, patch_result, tree, branch, nsha, faults, others, log>>

wvars == <<event, wenv, wpc, response, invoked>>

cvars == <<runs, refs>>

hvars == <<hpc, decision, memory, answer>>

bvars == <<bpc, clock, timeout, build_status, completion_result, polls>>

xvars == <<cvars, hvars, bvars>>

vars == <<ptext, pst, env, agent_response, pc, results, patch_files, idx, file_info,
          file_results, patch_result, tree, branch, nsha, faults, others, log,
          first, event, wenv, wpc, response, invoked, runs, refs,
          hpc, decision, memory, answer,
          bpc, clock, timeout, build_status, completion_result, polls>>

-----------------------------------------------------------------------------
(* Python values *)

None == <<"None">>

NL == "\n"

\* bool(s) of an Optional[str]: None and '' are falsy
Truthy(s) == s # None /\ s # <<>>

\* str.startswith
StartsWith(s, prefix) ==
    Len(s) >= Len(prefix) /\ SubSeq(s, 1, Len(prefix)) = prefix

\* s[n:] with n counted from 0
Slice(s, n) == SubSeq(s, n + 1, Len(s))

\* str.split('\n'): always at least one piece, the last piece is what follows
\* the last newline
RECURSIVE SplitFrom(_, _, _)
SplitFrom(s, i, cur) ==
    IF i > Len(s) THEN <<cur>>
    ELSE IF s[i] = NL THEN <<cur>> \o SplitFrom(s, i + 1, <<>>)
    ELSE SplitFrom(s, i + 1, Append(cur, s[i]))

Split(s) == SplitFrom(s, 1, <<>>)

\* '\n'.join(list)
RECURSIVE Join(_)
Join(list) ==
    IF list = <<>> THEN <<>>
    ELSE IF Len(list) = 1 THEN list[1]
    ELSE list[1] \o <<NL>> \o Join(Tail(list))

\* A dict kept in insertion order: keys[i] maps to vals[i]
EmptyDict == [keys |-> <<>>, vals |-> <<>>]

DictHas(d, k) == \E i \in 1..Len(d.keys) : d.keys[i] = k

DictIndex(d, k) == CHOOSE i \in 1..Len(d.keys) : d.keys[i] = k

DictGet(d, k) == d.vals[DictIndex(d, k)]

\* d[k] = v: a key already present keeps its position
DictSet(d, k, v) ==
    IF DictHas(d, k)
    THEN [d EXCEPT !.vals[DictIndex(d, k)] = v]
    ELSE [keys |-> Append(d.keys, k), vals |-> Append(d.vals, v)]

-----------------------------------------------------------------------------
(* GitHubTool._parse_patch *)

OldMarker == <<"-", "-", "-", " ", "a", "/">>
NewMarker == <<"+", "+", "+", " ", "b", "/">>

ParseInit ==
    [files |-> EmptyDict, current_file |-> None,
     current_content |-> <<>>, in_hunk |-> FALSE]

\* ParseLine with a hunk header that drops the content accumulated so far
ParseLineHunkResets(st, line) ==
    IF StartsWith(line, OldMarker) THEN
        [st EXCEPT !.current_file = Slice(line, 6),
                   !.current_content = <<>>,
                   !.in_hunk = FALSE]
    ELSE IF StartsWith(line, NewMarker) THEN
        [st EXCEPT !.files = IF Truthy(st.current_file)
                             THEN DictSet(st.files, st.current_file, None)
                             ELSE st.files,
                   !.in_hunk = TRUE]
    ELSE IF st.in_hunk /\ Truthy(st.current_file) THEN
        IF StartsWith(line, <<"+">>) /\ ~StartsWith(line, <<"+", "+", "+">>) THEN
            [st EXCEPT !.current_content = Append(@, Slice(line, 1))]
        ELSE IF StartsWith(line, <<" ">>) \/ StartsWith(line, <<"-">>) THEN
            IF StartsWith(line, <<" ">>)
            THEN [st EXCEPT !.current_content = Append(@, Slice(line, 1))]
            ELSE st
        ELSE IF StartsWith(line, <<"@", "@">>) THEN
            [st EXCEPT !.current_content = <<>>]
        ELSE
            IF st.current_content # <<>>
            THEN [st EXCEPT !.files =
                     DictSet(st.files, st.current_file, Join(st.current_content))]
            ELSE st
    ELSE st

\* One iteration of the loop over patch_content.split('\n')
ParseLine(st, line) ==
    IF StartsWith(line, OldMarker) THEN
        [st EXCEPT !.current_file = Slice(line, 6),
                   !.current_content = <<>>,
                   !.in_hunk = FALSE]
    ELSE IF StartsWith(line, NewMarker) THEN
        [st EXCEPT !.files = IF Truthy(st.current_file)
                             THEN DictSet(st.files, st.current_file, None)
                             ELSE st.files,
                   !.in_hunk = TRUE]
    ELSE IF st.in_hunk /\ Truthy(st.current_file) THEN
        IF StartsWith(line, <<"+">>) /\ ~StartsWith(line, <<"+", "+", "+">>) THEN
            [st EXCEPT !.current_content = Append(@, Slice(line, 1))]
        ELSE IF StartsWith(line, <<" ">>) \/ StartsWith(line, <<"-">>) THEN
            IF StartsWith(line, <<" ">>)
            THEN [st EXCEPT !.current_content = Append(@, Slice(line, 1))]
            ELSE st
        ELSE IF StartsWith(line, <<"@", "@">>) THEN
            st
        ELSE
            IF st.current_content # <<>>
            THEN [st EXCEPT !.files =
                     DictSet(st.files, st.current_file, Join(st.current_content))]
            ELSE st
    ELSE st

RECURSIVE ParseLines(_, _)
ParseLines(st, lines) ==
    IF lines = <<>> THEN st
    ELSE ParseLines(ParseLine(st, Head(lines)), Tail(lines))

\* The returned dict: path -> new content, or None
_parse_patch(patch_content) == ParseLines(ParseInit, Split(patch_content)).files

-----------------------------------------------------------------------------
(* Lines a patch is made of *)

OldF == OldMarker \o <<"f">>
NewF == NewMarker \o <<"f">>
OldG == OldMarker \o <<"g">>
NewG == NewMarker \o <<"g">>
OldH == OldMarker \o <<"h">>
NewH == NewMarker \o <<"h">>
Hunk == <<"@", "@">>
AddX == <<"+", "x">>
CtxY == <<" ", "y">>
DelZ == <<"-", "z">>
Blank == <<>>
Other == <<"d">>
DevNull == <<"-", "-", "-", " ", "/", "d", "e", "v", "/", "n", "u", "l", "l">>

LineAlphabet ==
    {OldF, NewF, OldG, NewG, DevNull, Hunk, AddX, CtxY, DelZ, Blank, Other}

-----------------------------------------------------------------------------
(* Encodings *)

\* The byte no UTF-8 text contains
BadByte == "#"

\* str.encode('utf-8') of the one-byte characters used here
Utf8Encode(str) == str

Utf8Decodable(bytes) == \A i \in 1..Len(bytes) : bytes[i] # BadByte

\* base64.b64encode: the empty byte string encodes to the empty string
B64Encode(bytes) == [i \in 1..Len(bytes) |-> <<"b64", bytes[i]>>]

\* base64.b64decode
B64Decode(text) == [i \in 1..Len(text) |-> text[i][2]]

-----------------------------------------------------------------------------
(* The remote repository: the files of the new branch and its answers *)

Paths == {<<"f">>, <<"g">>, <<"h">>}

Absent == [kind |-> "absent", bytes |-> <<>>, sha |-> None]

File(bytes, sha) == [kind |-> "file", bytes |-> bytes, sha |-> sha]

\* A path that names a directory: GET contents answers with a JSON array
Dir == [kind |-> "dir", bytes |-> <<>>, sha |-> None]

ShaDigits == <<"1", "2", "3", "4", "5", "6", "7", "8", "9">>

\* The n-th revision hash the remote hands out
ShaStr(n) == <<ShaDigits[n]>>

\* An HTTP answer as requests.request returns it: raised is a
\* requests.exceptions.RequestException instead of an answer
Response(status) ==
    [raised |-> FALSE, status |-> status, rate_text |-> FALSE,
     is_list |-> FALSE, content |-> <<>>, sha |-> None]

RateLimited == [Response(403) EXCEPT !.rate_text = TRUE]
AuthFailed == Response(401)
Transport == [Response(0) EXCEPT !.raised = TRUE]

\* Answers any request can get whatever the state of the repository
Faults == {RateLimited, AuthFailed, Transport}

\* GET /repos/{repo}/contents/{path}?ref={branch}
RemoteGet(t, path) ==
    IF t[path].kind = "absent" THEN Response(404)
    ELSE IF t[path].kind = "dir" THEN [Response(200) EXCEPT !.is_list = TRUE]
    ELSE [Response(200) EXCEPT !.content = B64Encode(t[path].bytes),
                               !.sha = t[path].sha]

\* PUT /repos/{repo}/contents/{path}: status of the answer
RemotePutStatus(t, path, sha) ==
    IF t[path].kind = "absent" THEN (IF sha = None THEN 201 ELSE 422)
    ELSE IF t[path].kind = "dir" THEN 422
    ELSE IF sha = None THEN 422
    ELSE IF sha = t[path].sha THEN 200
    ELSE 409

\* DELETE /repos/{repo}/contents/{path}: status of the answer
RemoteDeleteStatus(t, path, sha) ==
    IF t[path].kind # "file" THEN 404
    ELSE IF sha = None THEN 422
    ELSE IF sha = t[path].sha THEN 200
    ELSE 409

-----------------------------------------------------------------------------
(* GitHubTool *)

NoError == [msg |-> "None", status |-> 0]

Error(msg) == [msg |-> msg, status |-> 0]

\* _make_request: the result dict for an answer
_make_request(resp) ==
    IF resp.raised THEN
        [success |-> FALSE, error |-> Error("Request failed")]
    ELSE IF resp.status = 403 /\ resp.rate_text THEN
        [success |-> FALSE, error |-> Error("GitHub API rate limit exceeded")]
    ELSE IF resp.status >= 400 THEN
        [success |-> FALSE, error |-> [msg |-> "GitHub API error", status |-> resp.status]]
    ELSE
        [success |-> TRUE, error |-> NoError]

\* get_file_content: the result dict for the answer to its GET; raises is the
\* AttributeError of result['data'].get when the JSON answer is not an object.
\* An answer with empty content falls through to `return result`, the
\* _make_request dict, which has no 'sha' and no 'content' key.
get_file_content(resp) ==
    LET result == _make_request(resp) IN
    IF result.success THEN
        IF resp.is_list THEN
            [raises |-> TRUE, success |-> FALSE, content |-> None, sha |-> None,
             error |-> NoError]
        ELSE IF resp.content # <<>> THEN
            IF Utf8Decodable(B64Decode(resp.content)) THEN
                [raises |-> FALSE, success |-> TRUE,
                 content |-> B64Decode(resp.content), sha |-> resp.sha,
                 error |-> NoError]
            ELSE
                [raises |-> FALSE, success |-> FALSE, content |-> None, sha |-> None,
                 error |-> Error("Failed to decode file content")]
        ELSE
            [raises |-> FALSE, success |-> TRUE, content |-> None, sha |-> None,
             error |-> NoError]
    ELSE
        [raises |-> FALSE, success |-> FALSE, content |-> None, sha |-> None,
         error |-> result.error]

NoFileInfo ==
    [raises |-> FALSE, success |-> FALSE, content |-> None, sha |-> None,
     error |-> NoError]

-----------------------------------------------------------------------------
(* Inputs of a run *)

\* '\n'.join(lines), with a final newline when nl
Text(lines, nl) == IF nl THEN Join(lines) \o <<NL>> ELSE Join(lines)

\* Sections as `git diff` prints them: a `diff` line, the two headers, a hunk
SecF == <<Other, OldF, NewF, Hunk, AddX, CtxY>>
SecG == <<Other, OldG, NewG, Hunk, AddX>>
SecH == <<Other, OldH, NewH, Hunk, CtxY>>

Patches ==
    { None,                                          \* no "patch" in the decision
      <<>>,                                          \* "patch": ""
      Text(<<Other, Hunk, AddX>>, TRUE),             \* no file header
      Text(<<OldF, NewF, Hunk, AddX, CtxY>>, TRUE),  \* one file, one hunk
      Text(<<OldF, NewF, Hunk, AddX, CtxY>>, FALSE), \* the same, no final newline
      Text(<<OldF, NewF, Hunk, DelZ>>, TRUE),        \* one file, lines removed only
      Text(SecF \o SecG, TRUE),                      \* two files
      Text(SecF \o SecG \o SecH, TRUE),              \* three files
      Text(<<OldF, NewF, AddX, Other, OldF, NewF, CtxY>>, TRUE) } \* f twice

\* The branch as forked: which paths exist, and what they hold
Trees ==
    { [p \in Paths |-> Absent] }
    \cup
    { [p \in Paths |-> IF p = <<"f">> THEN fk ELSE gk] :
        fk \in { File(<<"a">>, ShaStr(1)), File(<<>>, ShaStr(1)),
                 File(<<BadByte>>, ShaStr(1)), Dir },
        gk \in { Absent, File(<<"b">>, ShaStr(2)) } }

\* repo_context.get('full_name'): the repository 'o/r', no name, a name
\* without owner
Repo == <<"o", "/", "r">>

RepoNames == {Repo, None, <<"r">>}

\* Transient failures (rate limit, credentials, transport) the remote answers per run
MaxFaults == 1

\* Writes by other clients on the branch during a run
MaxOtherWrites == 1

BuildOutcomes == {"start_failed", "SUCCEEDED", "FAILED", "TIMEOUT", "status_failed"}

-----------------------------------------------------------------------------
(* execute_agent_actions, one action per request sent *)

NoResults ==
    [success |-> FALSE, actions_taken |-> <<>>, errors |-> <<>>,
     artifacts |-> <<>>, test_build_id |-> FALSE, pr_url |-> FALSE]

\* Before apply_patch is called a second time
NoFirstCall ==
    [done |-> FALSE, success |-> FALSE, tree |-> [p \in Paths |-> Absent],
     requests |-> 0]

NoPatchResult ==
    [returned |-> FALSE, success |-> FALSE, error |-> NoError,
     files_processed |-> 0, files_successful |-> 0, results |-> <<>>]

\* No concurrent runs of execute_agent_actions
NoOtherRuns ==
    /\ runs = <<>>
    /\ refs = {}

NoOutcome == [success |-> FALSE, status |-> "NONE"]

\* wait_for_build_completion is not running
NoWait ==
    /\ bpc = "idle"
    /\ clock = 0
    /\ timeout = 0
    /\ build_status = "NONE"
    /\ completion_result = NoOutcome
    /\ polls = 0

\* The orchestrator's lambda_handler is not running
NoDecision == [can_auto_fix |-> "absent", confidence |-> "absent", reasoning |-> "", patch |-> None]

NoAnswer == [statusCode |-> 0, success |-> FALSE]

NoHandler ==
    /\ hpc = "idle"
    /\ decision = NoDecision
    /\ memory = <<>>
    /\ answer = NoAnswer

Init ==
    /\ ptext = <<>>
    /\ pst = ParseInit
    /\ env \in [GITHUB_TOKEN : BOOLEAN, CODEBUILD_PROJECT : BOOLEAN,
                S3_BUCKET : BOOLEAN, default_branch : BOOLEAN,
                full_name : RepoNames]
    /\ agent_response \in [can_auto_fix : BOOLEAN, patch : Patches]
    /\ pc = "start"
    /\ results = NoResults
    /\ patch_files = EmptyDict
    /\ idx = 0
    /\ file_info = NoFileInfo
    /\ file_results = <<>>
    /\ patch_result = NoPatchResult
    /\ tree \in Trees
    /\ branch \in {"free", "taken"}
    /\ nsha = Cardinality({ShaStr(1), ShaStr(2)})
    /\ faults = 0
    /\ others = 0
    /\ log = <<>>
    /\ first = NoFirstCall
    /\ event = None
    /\ wenv = None
    /\ wpc = "idle"
    /\ response = None
    /\ invoked = <<>>
    /\ NoOtherRuns
    /\ NoHandler
    /\ NoWait

\* The answer to a request under /repos/{repo_name}: 404 for a name that is
\* no repository
RepoAnswer(normal) == IF env.full_name = Repo THEN normal ELSE Response(404)

\* The answers a request can get: the one the repository's state gives, or a
\* transient failure
Answers(normal) == {normal} \cup (IF faults < MaxFaults THEN Faults ELSE {})

CountFault(resp) == faults' = IF resp \in Faults THEN faults + 1 ELSE faults

\* Line 263: the branch of the run; the base branch of repo_context
branch_name == <<"autofix-1">>
base_branch == <<"main">>

\* Target with the file requests sent for the base branch
TargetBase(op) ==
    IF op \in {"POST_REF", "START_BUILD", "POST_PULL"} THEN branch_name
    ELSE IF op \in {"GET_REF", "GET_FILE", "PUT_UPDATE", "PUT_CREATE", "DELETE_FILE"}
    THEN base_branch
    ELSE None

\* The branch a request names: the ref created, the ref or branch of a file
\* request, the branch built, the head of the pull request are branch_name;
\* the ref whose hash is read is the base branch
Target(op) ==
    IF op \in {"POST_REF", "GET_FILE", "PUT_UPDATE", "PUT_CREATE", "DELETE_FILE",
               "START_BUILD", "POST_PULL"}
    THEN branch_name
    ELSE IF op = "GET_REF" THEN base_branch
    ELSE None

Sent(op, path, sha, content, resp) ==
    log' = Append(log, [op |-> op, path |-> path, sha |-> sha, content |-> content,
                        status |-> resp.status, ok |-> _make_request(resp).success,
                        got |-> resp.sha, ref |-> Target(op)])

Failed(what, error) ==
    [results EXCEPT !.errors = Append(@, [what |-> what, error |-> error])]

Took(res, action) == [res EXCEPT !.actions_taken = Append(@, action)]

\* Where execute_agent_actions goes once the pull request is answered
AfterPR == IF env.S3_BUCKET THEN "s3" ELSE "done"

\* create_pull_request resolves the base branch first when none is given
AtPR == IF env.default_branch THEN "pr" ELSE "pr_default"

\* Where execute_agent_actions goes once the patch is applied or skipped
AfterPatch == IF env.CODEBUILD_PROJECT THEN "tests" ELSE AtPR

\* Where execute_agent_actions goes once the branch is created
AfterBranch == IF Truthy(agent_response.patch) THEN "apply" ELSE AfterPatch

\* Lines 240-260: the can_auto_fix test and the construction of the tools;
\* GitHubTool() raises ValueError without GITHUB_TOKEN
Start ==
    /\ pc = "start"
    /\ IF ~agent_response.can_auto_fix THEN
          /\ pc' = "done"
          /\ UNCHANGED results
       ELSE IF ~env.GITHUB_TOKEN THEN
          /\ pc' = "done"
          /\ results' = Failed("Execution error", Error("GitHub token is required"))
       ELSE
          /\ pc' = IF env.default_branch THEN "cb_sha" ELSE "cb_default"
          /\ UNCHANGED results
    /\ UNCHANGED <<xvars, wvars, first, ptext, pst, env, agent_response, patch_files, idx, file_info,
                   file_results, patch_result, tree, branch, nsha, faults, others, log>>

\* create_branch, base branch not given: get_default_branch
BranchDefault ==
    /\ pc = "cb_default"
    /\ \E resp \in Answers(RepoAnswer(Response(200))) :
        /\ CountFault(resp)
        /\ Sent("GET_REPO", None, None, None, resp)
        /\ IF _make_request(resp).success
           THEN pc' = "cb_sha" /\ UNCHANGED results
           ELSE /\ pc' = "done"
                /\ results' = Failed("Failed to create branch",
                                     Error("Could not determine default branch"))
    /\ UNCHANGED <<xvars, wvars, first, ptext, pst, env, agent_response, patch_files, idx, file_info,
                   file_results, patch_result, tree, branch, nsha, others>>

\* BranchSha without the test of base_sha at line 156
BranchShaUnchecked ==
    /\ pc = "cb_sha"
    /\ \E resp \in Answers(RepoAnswer(Response(200))) :
        /\ CountFault(resp)
        /\ Sent("GET_REF", None, None, None, resp)
    /\ pc' = "cb_post"
    /\ UNCHANGED <<xvars, wvars, first, ptext, pst, env, agent_response, results, patch_files, idx,
                   file_info, file_results, patch_result, tree, branch, nsha, others>>

\* create_branch: get_branch_sha of the base branch
BranchSha ==
    /\ pc = "cb_sha"
    /\ \E resp \in Answers(RepoAnswer(Response(200))) :
        /\ CountFault(resp)
        /\ Sent("GET_REF", None, None, None, resp)
        /\ IF _make_request(resp).success
           THEN pc' = "cb_post" /\ UNCHANGED results
           ELSE /\ pc' = "done"
                /\ results' = Failed("Failed to create branch",
                                     Error("Could not get SHA for base branch"))
    /\ UNCHANGED <<xvars, wvars, first, ptext, pst, env, agent_response, patch_files, idx, file_info,
                   file_results, patch_result, tree, branch, nsha, others>>

\* create_branch: POST git/refs, answered 422 when the name is taken; then
\* lines 270-274 of execute_agent_actions
BranchPost ==
    /\ pc = "cb_post"
    /\ \E resp \in Answers(RepoAnswer(IF branch = "free" THEN Response(201)
                                                       ELSE Response(422))) :
        /\ CountFault(resp)
        /\ Sent("POST_REF", None, None, None, resp)
        /\ IF _make_request(resp).success
           THEN /\ branch' = "created"
                /\ pc' = AfterBranch
                /\ results' = Took(results, "Created branch")
           ELSE /\ pc' = "done"
                /\ results' = Failed("Failed to create branch", _make_request(resp).error)
                /\ UNCHANGED branch
    /\ UNCHANGED <<xvars, wvars, first, ptext, pst, env, agent_response, patch_files, idx, file_info,
                   file_results, patch_result, tree, nsha, others>>

-----------------------------------------------------------------------------
(* GitHubTool.apply_patch, called at lines 277-289 of execute_agent_actions *)

\* file_path with the dict gone through from its last key
file_path_reversed == patch_files.keys[Len(patch_files.keys) + 1 - idx]

\* Line 359: the key of the loop over patch_files.items()
file_path == patch_files.keys[idx]
file_content == patch_files.vals[idx]

RECURSIVE CountSuccess(_)
CountSuccess(rs) ==
    IF rs = <<>> THEN 0
    ELSE (IF Head(rs).success THEN 1 ELSE 0) + CountSuccess(Tail(rs))

\* PatchReturn with the flag set as soon as one file succeeded
PatchReturnAnySuccess(rs) ==
    [returned |-> TRUE,
     success |-> CountSuccess(rs) > 0,
     error |-> NoError,
     files_processed |-> Len(rs),
     files_successful |-> CountSuccess(rs),
     results |-> rs]

\* Lines 386-395: the dict apply_patch returns after the loop
PatchReturn(rs) ==
    [returned |-> TRUE,
     success |-> CountSuccess(rs) = Len(rs),
     error |-> NoError,
     files_processed |-> Len(rs),
     files_successful |-> CountSuccess(rs),
     results |-> rs]

\* PatchError reporting success
PatchErrorSucceeds(msg) ==
    [returned |-> TRUE, success |-> TRUE, error |-> Error(msg),
     files_processed |-> 0, files_successful |-> 0, results |-> <<>>]

\* A dict apply_patch returns without results: the empty patch (lines 353-357)
\* and the exception handler (lines 397-402)
PatchError(msg) ==
    [returned |-> TRUE, success |-> FALSE, error |-> Error(msg),
     files_processed |-> 0, files_successful |-> 0, results |-> <<>>]

\* PatchDone without the return of line 289
PatchDoneGoesOn(pr) ==
    /\ patch_result' = pr
    /\ results' = IF pr.success
                  THEN Took(results, "Applied code patch")
                  ELSE Failed("Failed to apply patch", pr.error)
    /\ pc' = AfterPatch

\* Lines 285-289 of execute_agent_actions: the patch result decides whether
\* the run goes on
PatchDone(pr) ==
    /\ patch_result' = pr
    /\ IF pr.success
       THEN /\ results' = Took(results, "Applied code patch")
            /\ pc' = AfterPatch
       ELSE /\ results' = Failed("Failed to apply patch", pr.error)
            /\ pc' = "done"

\* Lines 380-384: the outcome of one file is appended; the loop goes to the
\* next file, or ends with lines 386-395
FileDone(success, error) ==
    LET rs == Append(file_results,
                     [file_path |-> file_path, success |-> success, error |-> error])
    IN  /\ file_results' = rs
        /\ file_info' = NoFileInfo
        /\ IF idx < Len(patch_files.keys)
           THEN /\ idx' = idx + 1
                /\ pc' = "lookup"
                /\ UNCHANGED <<patch_result, results>>
           ELSE /\ idx' = idx
                /\ PatchDone(PatchReturn(rs))

\* Lines 349-359: the patch is parsed; no file change ends the run
ApplyPatch ==
    /\ pc = "apply"
    /\ LET files == _parse_patch(agent_response.patch) IN
        /\ patch_files' = files
        /\ IF files.keys = <<>>
           THEN /\ PatchDone(PatchError("No valid file changes found in patch"))
                /\ UNCHANGED idx
           ELSE /\ idx' = 1
                /\ pc' = "lookup"
                /\ UNCHANGED <<patch_result, results>>
    /\ UNCHANGED <<xvars, wvars, first, ptext, pst, env, agent_response, file_info, file_results,
                   tree, branch, nsha, faults, others, log>>

\* The first get_file_content of a file: line 463 of _delete_file for a
\* deletion (inside its try), line 366 of apply_patch otherwise (an exception
\* there ends apply_patch at line 397)
Lookup ==
    /\ pc = "lookup"
    /\ \E resp \in Answers(RemoteGet(tree, file_path)) :
        LET info == get_file_content(resp) IN
        /\ CountFault(resp)
        /\ Sent("GET_FILE", file_path, None, None, resp)
        /\ IF file_content = None THEN
              IF info.raises THEN
                  FileDone(FALSE, Error("File deletion failed"))
              ELSE IF ~info.success THEN
                  FileDone(FALSE, Error("Could not get file SHA for deletion"))
              ELSE
                  /\ file_info' = info
                  /\ pc' = "delete"
                  /\ UNCHANGED <<idx, file_results, patch_result, results>>
           ELSE
              IF info.raises THEN
                  /\ PatchDone(PatchError("Patch application failed"))
                  /\ UNCHANGED <<idx, file_results, file_info>>
              ELSE
                  /\ file_info' = info
                  /\ pc' = IF info.success
                           THEN (IF Truthy(info.sha) THEN "put_update" ELSE "relookup")
                           ELSE "put_create"
                  /\ UNCHANGED <<idx, file_results, patch_result, results>>
    /\ UNCHANGED <<xvars, wvars, first, ptext, pst, env, agent_response, patch_files, tree, branch,
                   nsha, others>>

\* update_file lines 247-254: no sha was passed, the file is looked up again
Relookup ==
    /\ pc = "relookup"
    /\ \E resp \in Answers(RemoteGet(tree, file_path)) :
        LET info == get_file_content(resp) IN
        /\ CountFault(resp)
        /\ Sent("GET_FILE", file_path, None, None, resp)
        /\ IF info.raises THEN
              FileDone(FALSE, Error("File update failed"))
           ELSE IF ~info.success THEN
              FileDone(FALSE, Error("Could not get file SHA"))
           ELSE
              /\ file_info' = info
              /\ pc' = "put_update"
              /\ UNCHANGED <<idx, file_results, patch_result, results>>
    /\ UNCHANGED <<xvars, wvars, first, ptext, pst, env, agent_response, patch_files, tree, branch,
                   nsha, others>>

\* Written with the files written earlier taken back
WrittenAlone(path, content) ==
    [p \in Paths |-> IF p = path THEN File(B64Decode(content), ShaStr(nsha + 1))
                     ELSE Absent]

\* The remote's state after an accepted PUT of content to path
Written(path, content) ==
    [tree EXCEPT ![path] = File(B64Decode(content), ShaStr(nsha + 1))]

\* update_file lines 256-279: PUT with the 'sha' of the lookup
PutUpdate ==
    /\ pc = "put_update"
    /\ LET content == B64Encode(Utf8Encode(file_content)) IN
       \E resp \in Answers(Response(RemotePutStatus(tree, file_path, file_info.sha))) :
        /\ CountFault(resp)
        /\ Sent("PUT_UPDATE", file_path, file_info.sha, content, resp)
        /\ IF _make_request(resp).success
           THEN /\ tree' = Written(file_path, content)
                /\ nsha' = nsha + 1
           ELSE UNCHANGED <<tree, nsha>>
        /\ FileDone(_make_request(resp).success, _make_request(resp).error)
    /\ UNCHANGED <<xvars, wvars, first, ptext, pst, env, agent_response, patch_files, branch, others>>

\* create_file lines 303-326: PUT without 'sha'
PutCreate ==
    /\ pc = "put_create"
    /\ LET content == B64Encode(Utf8Encode(file_content)) IN
       \E resp \in Answers(Response(RemotePutStatus(tree, file_path, None))) :
        /\ CountFault(resp)
        /\ Sent("PUT_CREATE", file_path, None, content, resp)
        /\ IF _make_request(resp).success
           THEN /\ tree' = Written(file_path, content)
                /\ nsha' = nsha + 1
           ELSE UNCHANGED <<tree, nsha>>
        /\ FileDone(_make_request(resp).success, _make_request(resp).error)
    /\ UNCHANGED <<xvars, wvars, first, ptext, pst, env, agent_response, patch_files, branch, others>>

\* _delete_file lines 470-487: DELETE with the 'sha' of the lookup
Delete ==
    /\ pc = "delete"
    /\ \E resp \in Answers(Response(RemoteDeleteStatus(tree, file_path, file_info.sha))) :
        /\ CountFault(resp)
        /\ Sent("DELETE_FILE", file_path, file_info.sha, None, resp)
        /\ IF _make_request(resp).success
           THEN tree' = [tree EXCEPT ![file_path] = Absent]
           ELSE UNCHANGED tree
        /\ FileDone(_make_request(resp).success, _make_request(resp).error)
    /\ UNCHANGED <<xvars, wvars, first, ptext, pst, env, agent_response, patch_files, branch, nsha, others>>

\* Another client of the repository commits the file the run is working on,
\* between the run's lookup of it and its write (a commit before the lookup is
\* another tree to start from)
OtherWrite ==
    /\ pc \in {"relookup", "put_update", "put_create", "delete"}
    /\ others < MaxOtherWrites
    /\ tree[file_path].kind # "dir"
    /\ tree' = [tree EXCEPT ![file_path] = File(<<"o">>, ShaStr(nsha + 1))]
    /\ nsha' = nsha + 1
    /\ others' = others + 1
    /\ UNCHANGED <<xvars, wvars, first, ptext, pst, env, agent_response, pc, results, patch_files, idx,
                   file_info, file_results, patch_result, branch, faults, log>>

-----------------------------------------------------------------------------
(* execute_agent_actions after the patch: tests, pull request, artifact *)

\* Lines 292-303 with CodeBuildTool.run_tests: the build cannot be started, or
\* it is started and ends, times out, or its status cannot be read
RunTests ==
    /\ pc = "tests"
    /\ \E outcome \in BuildOutcomes :
        /\ log' = Append(log, [op |-> "START_BUILD", path |-> None, sha |-> None,
                               content |-> None, status |-> 0,
                               ok |-> outcome # "start_failed", got |-> None,
                               ref |-> Target("START_BUILD")])
        /\ results' = IF outcome = "SUCCEEDED"
                      THEN [Took(results, "Triggered automated tests")
                               EXCEPT !.test_build_id = TRUE]
                      ELSE Failed("Failed to run tests",
                                  IF outcome = "start_failed"
                                  THEN Error("Failed to start build")
                                  ELSE NoError)
    /\ pc' = AtPR
    /\ UNCHANGED <<xvars, wvars, first, ptext, pst, env, agent_response, patch_files, idx, file_info,
                   file_results, patch_result, tree, branch, nsha, faults, others>>

\* create_pull_request lines 512-513: the base branch is not given; the
\* request goes on whatever get_default_branch returns
PRDefault ==
    /\ pc = "pr_default"
    /\ \E resp \in Answers(Response(200)) :
        /\ CountFault(resp)
        /\ Sent("GET_REPO", None, None, None, resp)
    /\ pc' = "pr"
    /\ UNCHANGED <<xvars, wvars, first, ptext, pst, env, agent_response, results, patch_files, idx,
                   file_info, file_results, patch_result, tree, branch, nsha, others>>

\* create_pull_request lines 515-535 and lines 332-337 of
\* execute_agent_actions; the remote accepts the pull request or refuses it
CreatePR ==
    /\ pc = "pr"
    /\ \E normal \in {Response(201), Response(422)} :
       \E resp \in Answers(normal) :
        /\ CountFault(resp)
        /\ Sent("POST_PULL", None, None, None, resp)
        /\ results' = IF _make_request(resp).success
                      THEN [Took(results, "Created pull request")
                               EXCEPT !.pr_url = TRUE, !.success = TRUE]
                      ELSE Failed("Failed to create PR", _make_request(resp).error)
    /\ pc' = AfterPR
    /\ UNCHANGED <<xvars, wvars, first, ptext, pst, env, agent_response, patch_files, idx, file_info,
                   file_results, patch_result, tree, branch, nsha, others>>

\* Lines 340-354: S3Tool.store_artifact stores the record or reports an error
StoreArtifact ==
    /\ pc = "s3"
    /\ \E stored \in BOOLEAN :
        /\ log' = Append(log, [op |-> "S3_PUT", path |-> None, sha |-> None,
                               content |-> None, status |-> 0, ok |-> stored,
                               got |-> None, ref |-> Target("S3_PUT")])
        /\ results' = IF stored
                      THEN [results EXCEPT !.artifacts = Append(@, "s3")]
                      ELSE Failed("Failed to store artifact", Error("store_artifact"))
    /\ pc' = "done"
    /\ UNCHANGED <<xvars, wvars, first, ptext, pst, env, agent_response, patch_files, idx, file_info,
                   file_results, patch_result, tree, branch, nsha, faults, others>>

Next ==
    \/ Start
    \/ BranchDefault
    \/ BranchSha
    \/ BranchPost
    \/ ApplyPatch
    \/ Lookup
    \/ Relookup
    \/ PutUpdate
    \/ PutCreate
    \/ Delete
    \/ OtherWrite
    \/ RunTests
    \/ PRDefault
    \/ CreatePR
    \/ StoreArtifact

Spec == Init /\ [][Next]_vars

-----------------------------------------------------------------------------
(* _parse_patch run alone on every patch that opens with the two headers   *)
(* of a section for f and goes on for at most MaxLines lines: the state     *)
(* after k lines is the state of the loop for the text read so far, and     *)
(* pst.files is what the function returns if the text ends there.           *)

\* Most lines, after the two headers, that the parser is run on alone
MaxLines == 4

\* The two headers the patches open with
Opening == <<OldF, NewF>>

InitParse ==
    /\ ptext = Text(Opening, FALSE)
    /\ pst = ParseLines(ParseInit, Split(ptext))
    /\ env = [GITHUB_TOKEN |-> TRUE, CODEBUILD_PROJECT |-> FALSE,
              S3_BUCKET |-> FALSE, default_branch |-> TRUE, full_name |-> Repo]
    /\ agent_response = [can_auto_fix |-> TRUE, patch |-> None]
    /\ pc = "parse"
    /\ results = NoResults
    /\ patch_files = EmptyDict
    /\ idx = 0
    /\ file_info = NoFileInfo
    /\ file_results = <<>>
    /\ patch_result = NoPatchResult
    /\ tree = [p \in Paths |-> Absent]
    /\ branch = "free"
    /\ nsha = Cardinality({ShaStr(1), ShaStr(2)})
    /\ faults = 0
    /\ others = 0
    /\ log = <<>>
    /\ first = NoFirstCall
    /\ event = None
    /\ wenv = None
    /\ wpc = "idle"
    /\ response = None
    /\ invoked = <<>>
    /\ NoOtherRuns
    /\ NoHandler
    /\ NoWait

\* The loop of _parse_patch reads one more line
ParseNextLine ==
    /\ pc = "parse"
    /\ Len(Split(ptext)) < Len(Opening) + MaxLines
    /\ \E line \in LineAlphabet :
        /\ ptext' = ptext \o <<NL>> \o line
        /\ pst' = ParseLine(pst, line)
    /\ UNCHANGED <<xvars, rvars, first, wvars>>

NextParse == ParseNextLine

SpecParse == InitParse /\ [][NextParse]_vars

-----------------------------------------------------------------------------
(* apply_patch called twice with the same patch on the same branch: the    *)
(* second call finds the branch as the first call left it.                 *)

InitAgain ==
    /\ ptext = <<>>
    /\ pst = ParseInit
    /\ env = [GITHUB_TOKEN |-> TRUE, CODEBUILD_PROJECT |-> FALSE,
              S3_BUCKET |-> FALSE, default_branch |-> TRUE, full_name |-> Repo]
    /\ agent_response \in [can_auto_fix : {TRUE}, patch : {p \in Patches : Truthy(p)}]
    /\ pc = "apply"
    /\ results = NoResults
    /\ patch_files = EmptyDict
    /\ idx = 0
    /\ file_info = NoFileInfo
    /\ file_results = <<>>
    /\ patch_result = NoPatchResult
    /\ tree \in Trees
    /\ branch = "created"
    /\ nsha = Cardinality({ShaStr(1), ShaStr(2)})
    /\ faults = 0
    /\ others = 0
    /\ log = <<>>
    /\ first = NoFirstCall
    /\ event = None
    /\ wenv = None
    /\ wpc = "idle"
    /\ response = None
    /\ invoked = <<>>
    /\ NoOtherRuns
    /\ NoHandler
    /\ NoWait

\* apply_patch has returned and is called again with the same arguments
Again ==
    /\ patch_result.returned
    /\ ~first.done
    /\ first' = [done |-> TRUE, success |-> patch_result.success, tree |-> tree,
                 requests |-> Len(log)]
    /\ pc' = "apply"
    /\ patch_files' = EmptyDict
    /\ idx' = 0
    /\ file_info' = NoFileInfo
    /\ file_results' = <<>>
    /\ patch_result' = NoPatchResult
    /\ UNCHANGED <<xvars, wvars, ptext, pst, env, agent_response, results, tree, branch,
                   nsha, faults, others, log>>

NextAgain ==
    \/ ApplyPatch
    \/ Lookup
    \/ Relookup
    \/ PutUpdate
    \/ PutCreate
    \/ Delete
    \/ Again

SpecAgain == InitAgain /\ [][NextAgain]_vars

-----------------------------------------------------------------------------
(* create_file followed by get_file_content, on the same path and branch *)

\* Longest content written, in characters
MaxContent == 2

Contents == UNION {[1..n -> {"x", "y", NL}] : n \in 0..MaxContent}

InitRoundTrip ==
    /\ ptext = <<>>
    /\ pst = ParseInit
    /\ env = [GITHUB_TOKEN |-> TRUE, CODEBUILD_PROJECT |-> FALSE,
              S3_BUCKET |-> FALSE, default_branch |-> TRUE, full_name |-> Repo]
    /\ agent_response = [can_auto_fix |-> TRUE, patch |-> None]
    /\ pc = "create_file"
    /\ results = NoResults
    /\ \E content \in Contents : patch_files = DictSet(EmptyDict, <<"f">>, content)
    /\ idx = 1
    /\ file_info = NoFileInfo
    /\ file_results = <<>>
    /\ patch_result = NoPatchResult
    /\ tree \in Trees
    /\ branch = "created"
    /\ nsha = Cardinality({ShaStr(1), ShaStr(2)})
    /\ faults = 0
    /\ others = 0
    /\ log = <<>>
    /\ first = NoFirstCall
    /\ event = None
    /\ wenv = None
    /\ wpc = "idle"
    /\ response = None
    /\ invoked = <<>>
    /\ NoOtherRuns
    /\ NoHandler
    /\ NoWait

\* create_file(repo, file_path, file_content, message, branch), lines 303-326
CreateFile ==
    /\ pc = "create_file"
    /\ LET content == B64Encode(Utf8Encode(file_content)) IN
       \E resp \in Answers(Response(RemotePutStatus(tree, file_path, None))) :
        /\ CountFault(resp)
        /\ Sent("PUT_CREATE", file_path, None, content, resp)
        /\ IF _make_request(resp).success
           THEN /\ tree' = Written(file_path, content)
                /\ nsha' = nsha + 1
           ELSE UNCHANGED <<tree, nsha>>
        /\ file_results' = <<[file_path |-> file_path,
                              success |-> _make_request(resp).success,
                              error |-> _make_request(resp).error]>>
    /\ pc' = "get_file_content"
    /\ UNCHANGED <<xvars, wvars, first, ptext, pst, env, agent_response, results, patch_files,
                   idx, file_info, patch_result, branch, others>>

\* get_file_content(repo, file_path, branch), lines 202-227
GetFileContent ==
    /\ pc = "get_file_content"
    /\ \E resp \in Answers(RemoteGet(tree, file_path)) :
        /\ CountFault(resp)
        /\ Sent("GET_FILE", file_path, None, None, resp)
        /\ file_info' = get_file_content(resp)
    /\ pc' = "returned"
    /\ UNCHANGED <<xvars, wvars, first, ptext, pst, env, agent_response, results, patch_files,
                   idx, file_results, patch_result, tree, branch, nsha, others>>

NextRoundTrip ==
    \/ CreateFile
    \/ GetFileContent

SpecRoundTrip == InitRoundTrip /\ [][NextRoundTrip]_vars

-----------------------------------------------------------------------------
(* webhook_handler.py: one call of lambda_handler *)

\* hmac.new(secret, payload, sha256).hexdigest(): a string that depends on
\* the key and on every character of the message
HexDigest(secret, payload) == <<"hmac(">> \o secret \o <<",">> \o payload \o <<")">>

Sha256Prefix == <<"s", "h", "a", "2", "5", "6", "=">>

\* verify_github_signature(payload, signature, secret), lines 23-51
verify_github_signature(payload, signature, secret) ==
    IF ~Truthy(signature) \/ ~Truthy(secret) THEN FALSE
    ELSE LET stripped == IF StartsWith(signature, Sha256Prefix)
                         THEN Slice(signature, 7)
                         ELSE signature
         IN  stripped = HexDigest(secret, payload)

\* json.dumps of a webhook payload: action, issue (assignee, state, labels)
\* and repository, the issue and the repository present or not
JsonDumps(payload) ==
    <<"{", payload.action,
      IF payload.issue.present THEN "issue" ELSE "",
      payload.issue.assignee, payload.issue.state,
      IF payload.repository THEN "repository" ELSE "">>
        \o payload.issue.labels \o <<"}">>

NoIssue == [present |-> FALSE, assignee |-> "", state |-> "", labels |-> <<>>]

NoPayload == [action |-> "", issue |-> NoIssue, repository |-> FALSE]

\* json.loads: the payload of a text that is JSON, JSONDecodeError otherwise
JsonLoads(text) ==
    IF Len(text) >= 7 /\ text[1] = "{" /\ text[Len(text)] = "}"
    THEN [ok |-> TRUE,
          value |-> [action |-> text[2],
                     issue |-> [present |-> text[3] = "issue",
                                assignee |-> text[4],
                                state |-> text[5],
                                labels |-> SubSeq(text, 7, Len(text) - 1)],
                     repository |-> text[6] = "repository"]]
    ELSE [ok |-> FALSE, value |-> NoPayload]

skip_labels == {"needs-review", "complex", "breaking-change", "security"}

\* ShouldProcess without the test of the labels
ShouldProcessAnyLabel(issue_context) ==
    IF issue_context.assignee # "" THEN FALSE
    ELSE IF issue_context.state = "closed" THEN FALSE
    ELSE issue_context.state = "open"

\* should_process_issue(issue_context), lines 105-133
should_process_issue(issue_context) ==
    IF issue_context.assignee # "" THEN FALSE
    ELSE IF issue_context.state = "closed" THEN FALSE
    ELSE IF \E i \in 1..Len(issue_context.labels) :
                issue_context.labels[i] \in skip_labels THEN FALSE
    ELSE issue_context.state = "open"

\* The events lambda_handler is called with
Secrets == {<<"k">>, <<"q">>}

LabelLists ==
    {<<>>, <<"bug">>, <<"security">>, <<"bug", "complex">>, <<"needs-review">>,
     <<"breaking-change">>}

Issues ==
    {NoIssue}
    \cup [present : {TRUE}, assignee : {"", "u"}, state : {"open", "closed", ""},
          labels : LabelLists]

Payloads ==
    [action : {"opened", "reopened", "edited", "closed"}, issue : Issues,
     repository : BOOLEAN]

\* The request bodies: JSON texts, and a text cut short
Bodies == {JsonDumps(payload) : payload \in Payloads} \cup {<<"{", "opened">>}

\* 'test-signature', the value the end-to-end test sends
Placeholder == <<"t", "e", "s", "t">>

\* The X-Hub-Signature-256 values sent with a body: none, the placeholder,
\* the digest under each secret with and without prefix, the digest of
\* another body
Signatures(raw) ==
    {<<>>, Placeholder, Sha256Prefix \o HexDigest(<<"k">>, raw \o <<" ">>)}
    \cup {HexDigest(secret, raw) : secret \in Secrets}
    \cup {Sha256Prefix \o HexDigest(secret, raw) : secret \in Secrets}

Events ==
    UNION { UNION { { [signature |-> sig, event_type |-> type,
                       isBase64Encoded |-> FALSE, body |-> raw],
                      [signature |-> sig, event_type |-> type,
                       isBase64Encoded |-> TRUE, body |-> B64Encode(Utf8Encode(raw))] } :
                    sig \in Signatures(raw), type \in {"issues", "push"} } :
            raw \in Bodies }

NoResponse == [statusCode |-> 0, message |-> ""]

InitWebhook ==
    /\ ptext = <<>>
    /\ pst = ParseInit
    /\ env = [GITHUB_TOKEN |-> TRUE, CODEBUILD_PROJECT |-> FALSE,
              S3_BUCKET |-> FALSE, default_branch |-> TRUE, full_name |-> Repo]
    /\ agent_response = [can_auto_fix |-> TRUE, patch |-> None]
    /\ pc = "idle"
    /\ results = NoResults
    /\ patch_files = EmptyDict
    /\ idx = 0
    /\ file_info = NoFileInfo
    /\ file_results = <<>>
    /\ patch_result = NoPatchResult
    /\ tree = [p \in Paths |-> Absent]
    /\ branch = "free"
    /\ nsha = Cardinality({ShaStr(1), ShaStr(2)})
    /\ faults = 0
    /\ others = 0
    /\ log = <<>>
    /\ first = NoFirstCall
    /\ event \in Events
    /\ wenv \in [GITHUB_SECRET : {None, <<"k">>}, ORCHESTRATOR_FUNCTION : BOOLEAN]
    /\ wpc = "received"
    /\ response = NoResponse
    /\ invoked = <<>>
    /\ NoOtherRuns
    /\ NoHandler
    /\ NoWait

\* Lines 152-155: the body, decoded when isBase64Encoded
body == IF event.isBase64Encoded THEN B64Decode(event.body) ELSE event.body

Answered(statusCode, message) ==
    /\ response' = [statusCode |-> statusCode, message |-> message]
    /\ wpc' = "answered"

\* Lines 157-170: the signature is verified when GITHUB_SECRET is set
VerifySignature ==
    /\ wpc = "received"
    /\ IF /\ Truthy(wenv.GITHUB_SECRET)
          /\ ~verify_github_signature(Utf8Encode(body), event.signature,
                                      wenv.GITHUB_SECRET)
       THEN Answered(401, "Invalid signature")
       ELSE wpc' = "parse" /\ UNCHANGED response
    /\ UNCHANGED <<xvars, pvars, rvars, first, event, wenv, invoked>>

\* Lines 172-180: json.loads of the body
ParsePayload ==
    /\ wpc = "parse"
    /\ IF JsonLoads(body).ok
       THEN wpc' = "route" /\ UNCHANGED response
       ELSE Answered(400, "Invalid JSON")
    /\ UNCHANGED <<xvars, pvars, rvars, first, event, wenv, invoked>>

\* Lines 182-236: event type, action, issue and repository, eligibility,
\* ORCHESTRATOR_FUNCTION
Route ==
    /\ wpc = "route"
    /\ LET payload == JsonLoads(body).value IN
       IF event.event_type # "issues" THEN
           Answered(200, "Event type not supported")
       ELSE IF payload.action \notin {"opened", "reopened", "edited"} THEN
           Answered(200, "Action not supported")
       ELSE IF ~payload.issue.present \/ ~payload.repository THEN
           Answered(400, "Missing required data")
       ELSE IF ~should_process_issue(payload.issue) THEN
           Answered(200, "Issue not eligible for processing")
       ELSE IF ~wenv.ORCHESTRATOR_FUNCTION THEN
           Answered(500, "Configuration error")
       ELSE
           wpc' = "invoke" /\ UNCHANGED response
    /\ UNCHANGED <<xvars, pvars, rvars, first, event, wenv, invoked>>

\* Lines 238-255, 262-271: lambda_client.invoke queues the payload or raises
InvokeOrchestrator ==
    /\ wpc = "invoke"
    /\ LET payload == JsonLoads(body).value IN
       \E raised \in BOOLEAN :
        IF raised
        THEN /\ Answered(500, "Internal server error")
             /\ UNCHANGED invoked
        ELSE /\ Answered(200, "Issue queued for processing")
             /\ invoked' = Append(invoked, [event_type |-> event.event_type,
                                            action |-> payload.action,
                                            issue |-> payload.issue,
                                            repository |-> payload.repository])
    /\ UNCHANGED <<xvars, pvars, rvars, first, event, wenv>>

NextWebhook ==
    \/ VerifySignature
    \/ ParsePayload
    \/ Route
    \/ InvokeOrchestrator

SpecWebhook == InitWebhook /\ [][NextWebhook]_vars

-----------------------------------------------------------------------------
(* Two runs of execute_agent_actions at once on one repository: each         *)
(* computes its branch name, creates the branch and writes one file on it    *)

RunIds == {1, 2}

\* int(datetime.now().timestamp()) of line 263, for runs close in time
Timestamps == {1, 2}

\* Line 263: f"autofix-{number}-{int(timestamp)}", the runs being for one issue
RunBranch(r) == <<"autofix-1-", runs[r].timestamp>>

\* The branch names the remote holds
RefNames == {ref.name : ref \in refs}

\* create_branch, lines 162-179: POST git/refs is answered 201, or 422 when
\* the reference exists already
RefAnswer(name) == IF name \in RefNames THEN Response(422) ELSE Response(201)

\* Lines 270-274 continuing with the patch whatever create_branch returned
RunAfterBranchGoesOn(success) == "lookup"

\* Lines 270-274: execute_agent_actions returns when create_branch failed
RunAfterBranch(success) == IF success THEN "lookup" ELSE "done"

RunSent(r, op, resp) ==
    log' = Append(log, [op |-> op, run |-> r, ref |-> RunBranch(r),
                        status |-> resp.status, ok |-> _make_request(resp).success])

InitRace ==
    /\ ptext = <<>>
    /\ pst = ParseInit
    /\ env = [GITHUB_TOKEN |-> TRUE, CODEBUILD_PROJECT |-> FALSE, S3_BUCKET |-> FALSE,
              default_branch |-> TRUE, full_name |-> Repo]
    /\ agent_response = [can_auto_fix |-> TRUE, patch |-> Text(SecF, FALSE)]
    /\ pc = "start"
    /\ results = NoResults
    /\ patch_files = EmptyDict
    /\ idx = 0
    /\ file_info = NoFileInfo
    /\ file_results = <<>>
    /\ patch_result = NoPatchResult
    /\ tree = [p \in Paths |-> Absent]
    /\ branch = "free"
    /\ nsha = 0
    /\ faults = 0
    /\ others = 0
    /\ log = <<>>
    /\ first = NoFirstCall
    /\ event = None
    /\ wenv = None
    /\ wpc = "idle"
    /\ response = None
    /\ invoked = <<>>
    /\ runs \in [RunIds -> [timestamp : Timestamps, pc : {"cb_sha"}, error : {NoError},
                            created : {FALSE}]]
    /\ refs = {}
    /\ NoHandler
    /\ NoWait

\* create_branch of run r: get_branch_sha of the base branch (lines 154-159)
RunBranchSha(r) ==
    /\ runs[r].pc = "cb_sha"
    /\ \E resp \in Answers(Response(200)) :
        /\ CountFault(resp)
        /\ RunSent(r, "GET_REF", resp)
        /\ runs' = [runs EXCEPT ![r] =
                      IF _make_request(resp).success THEN [@ EXCEPT !.pc = "cb_post"]
                      ELSE [@ EXCEPT !.pc = "done",
                                     !.error = Error("Could not get SHA for base branch")]]
    /\ UNCHANGED <<refs, bvars, hvars, wvars, first, ptext, pst, env, agent_response, pc, results,
                   patch_files, idx, file_info, file_results, patch_result, tree,
                   branch, nsha, others>>

\* create_branch of run r: POST git/refs (lines 162-179), then lines 270-274
RunBranchPost(r) ==
    /\ runs[r].pc = "cb_post"
    /\ \E resp \in Answers(RefAnswer(RunBranch(r))) :
        /\ CountFault(resp)
        /\ RunSent(r, "POST_REF", resp)
        /\ refs' = IF _make_request(resp).success
                   THEN refs \cup {[name |-> RunBranch(r), by |-> r]} ELSE refs
        /\ runs' = [runs EXCEPT ![r] =
                      [@ EXCEPT !.pc = RunAfterBranch(_make_request(resp).success),
                                !.created = _make_request(resp).success,
                                !.error = _make_request(resp).error]]
    /\ UNCHANGED <<bvars, hvars, wvars, first, ptext, pst, env, agent_response, pc, results,
                   patch_files, idx, file_info, file_results, patch_result, tree,
                   branch, nsha, others>>

\* apply_patch of run r: get_file_content of the file on the run's branch
RunLookup(r) ==
    /\ runs[r].pc = "lookup"
    /\ \E resp \in Answers(Response(404)) :
        /\ CountFault(resp)
        /\ RunSent(r, "GET_FILE", resp)
        /\ runs' = [runs EXCEPT ![r].pc = "write"]
    /\ UNCHANGED <<refs, bvars, hvars, wvars, first, ptext, pst, env, agent_response, pc, results,
                   patch_files, idx, file_info, file_results, patch_result, tree,
                   branch, nsha, others>>

\* apply_patch of run r: create_file on the run's branch
RunWrite(r) ==
    /\ runs[r].pc = "write"
    /\ \E resp \in Answers(Response(201)) :
        /\ CountFault(resp)
        /\ RunSent(r, "PUT_CREATE", resp)
        /\ runs' = [runs EXCEPT ![r].pc = "done"]
    /\ UNCHANGED <<refs, bvars, hvars, wvars, first, ptext, pst, env, agent_response, pc, results,
                   patch_files, idx, file_info, file_results, patch_result, tree,
                   branch, nsha, others>>

NextRace ==
    \E r \in RunIds :
        \/ RunBranchSha(r)
        \/ RunBranchPost(r)
        \/ RunLookup(r)
        \/ RunWrite(r)

SpecRace == InitRace /\ [][NextRace]_vars

-----------------------------------------------------------------------------
(* The orchestrator's lambda_handler: the reasoning call, the decision, the  *)
(* run of execute_agent_actions, the memory record and the answer            *)

\* The JSON objects the reasoning call can answer with: can_auto_fix true,
\* false or absent; confidence a number, null, a string or absent
Decisions ==
    [can_auto_fix : {"true"}, confidence : {"0.9", "text"}, reasoning : {"r"},
     patch : Patches]
    \cup
    [can_auto_fix : {"false", "absent"},
     confidence : {"0.0", "0.9", "null", "text", "absent"}, reasoning : {"r"},
     patch : {None}]

\* What bedrock_client.invoke_model gives: an exception, a body without
\* content, text without '{...}', text whose '{...}' is no JSON, a JSON object
Replies ==
    [kind : {"raised", "empty", "no_json", "invalid_json"}, json : {NoDecision}]
    \cup [kind : {"json"}, json : Decisions]

\* The structured response of lines 199-225
Fallback(reasoning) ==
    [can_auto_fix |-> "false", confidence |-> "0.0", reasoning |-> reasoning,
     patch |-> None]

\* Lines 151-225
call_bedrock_agent(reply) ==
    IF reply.kind = "raised" THEN Fallback("Bedrock API error")
    ELSE IF reply.kind = "empty" THEN Fallback("Empty response from agent")
    ELSE IF reply.kind = "no_json" THEN Fallback("Could not parse agent response")
    ELSE IF reply.kind = "invalid_json" THEN Fallback("Invalid JSON response from agent")
    ELSE reply.json

\* agent_response.get('can_auto_fix', False): lines 247 and 396
CanAutoFix(d) == d.can_auto_fix = "true"

\* Line 392: f"{agent_response.get('confidence', 0):.1%}" formats a number
\* and raises for None and for a string
FormatsAsPercent(d) == d.confidence \in {"0.0", "0.9", "absent"}

InitHandler ==
    /\ ptext = <<>>
    /\ pst = ParseInit
    /\ env \in [GITHUB_TOKEN : BOOLEAN, CODEBUILD_PROJECT : BOOLEAN,
                S3_BUCKET : BOOLEAN, default_branch : BOOLEAN,
                full_name : {Repo}]
    /\ agent_response = [can_auto_fix |-> FALSE, patch |-> None]
    /\ pc = "idle"
    /\ results = NoResults
    /\ patch_files = EmptyDict
    /\ idx = 0
    /\ file_info = NoFileInfo
    /\ file_results = <<>>
    /\ patch_result = NoPatchResult
    /\ tree \in Trees
    /\ branch \in {"free", "taken"}
    /\ nsha = Cardinality({ShaStr(1), ShaStr(2)})
    /\ faults = 0
    /\ others = 0
    /\ log = <<>>
    /\ first = NoFirstCall
    /\ event = None
    /\ wenv = None
    /\ wpc = "idle"
    /\ response = None
    /\ invoked = <<>>
    /\ NoOtherRuns
    /\ hpc = "call"
    /\ decision = NoDecision
    /\ memory = <<>>
    /\ answer = NoAnswer
    /\ NoWait

\* Lines 387-389: agent_response = call_bedrock_agent(prompt)
HandlerCall ==
    /\ hpc = "call"
    /\ \E reply \in Replies :
        /\ decision' = call_bedrock_agent(reply)
        /\ agent_response' = [can_auto_fix |-> CanAutoFix(call_bedrock_agent(reply)),
                              patch |-> call_bedrock_agent(reply).patch]
    /\ hpc' = "log"
    /\ UNCHANGED <<bvars, cvars, memory, answer, wvars, first, ptext, pst, env, pc, results,
                   patch_files, idx, file_info, file_results, patch_result, tree,
                   branch, nsha, faults, others, log>>

\* Lines 391-392, and lines 436-444 when the format raises
HandlerLog ==
    /\ hpc = "log"
    /\ IF FormatsAsPercent(decision)
       THEN hpc' = "decide" /\ UNCHANGED answer
       ELSE hpc' = "answered" /\ answer' = [statusCode |-> 500, success |-> FALSE]
    /\ UNCHANGED <<bvars, cvars, decision, memory, wvars, first, ptext, pst, env,
                   agent_response, pc, results, patch_files, idx, file_info,
                   file_results, patch_result, tree, branch, nsha, faults, others, log>>

\* Lines 394-405: execute_agent_actions is called for a positive decision
HandlerDecide ==
    /\ hpc = "decide"
    /\ IF CanAutoFix(decision)
       THEN hpc' = "execute" /\ pc' = "start"
       ELSE hpc' = "store" /\ UNCHANGED pc
    /\ UNCHANGED <<bvars, cvars, decision, memory, answer, wvars, first, ptext, pst, env,
                   agent_response, results, patch_files, idx, file_info,
                   file_results, patch_result, tree, branch, nsha, faults, others, log>>

\* execution_results.get('success', False) of lines 414 and 423
ExecutionSuccess == hpc = "execute" /\ results.success

\* Lines 407-434: store_agent_memory (nothing without a memory table, a
\* failing put_item is logged only), then the answer
HandlerFinish ==
    /\ \/ hpc = "store"
       \/ hpc = "execute" /\ pc = "done"
    /\ \E put \in {"no_table", "stored", "failed"} :
        memory' = IF put = "stored"
                  THEN Append(memory, [can_auto_fix |-> CanAutoFix(decision),
                                       confidence |-> decision.confidence,
                                       execution_success |-> ExecutionSuccess])
                  ELSE memory
    /\ answer' = [statusCode |-> 200, success |-> ExecutionSuccess]
    /\ hpc' = "answered"
    /\ UNCHANGED <<bvars, cvars, decision, wvars, first, ptext, pst, env,
                   agent_response, pc, results, patch_files, idx, file_info,
                   file_results, patch_result, tree, branch, nsha, faults, others, log>>

NextHandler ==
    \/ HandlerCall
    \/ HandlerLog
    \/ HandlerDecide
    \/ Next
    \/ HandlerFinish

SpecHandler == InitHandler /\ [][NextHandler]_vars

-----------------------------------------------------------------------------
(* CodeBuildTool.wait_for_build_completion: the polling loop, the clock      *)
(* counted in intervals of the loop's sleep                                  *)

\* The longest timeout_minutes * 60, in sleep intervals
MaxTimeout == 3

\* The most the clock advances over one time.sleep(10), in sleep intervals
MaxAdvance == 2

\* buildStatus of batch_get_builds
BuildStatuses == {"IN_PROGRESS", "SUCCEEDED", "FAILED", "FAULT", "STOPPED", "TIMED_OUT"}

\* Line 219: the statuses the loop returns for
Complete == {"SUCCEEDED", "FAILED", "STOPPED", "TIMED_OUT"}

\* success true for any status the loop returns for
BuildSucceededAnyEnd(s) == s \in Complete

\* Line 221: 'success': status == 'SUCCEEDED'
BuildSucceeded(s) == s = "SUCCEEDED"

InitWait ==
    /\ ptext = <<>>
    /\ pst = ParseInit
    /\ env = [GITHUB_TOKEN |-> TRUE, CODEBUILD_PROJECT |-> TRUE, S3_BUCKET |-> FALSE,
              default_branch |-> TRUE, full_name |-> Repo]
    /\ agent_response = [can_auto_fix |-> TRUE, patch |-> None]
    /\ pc = "tests"
    /\ results = NoResults
    /\ patch_files = EmptyDict
    /\ idx = 0
    /\ file_info = NoFileInfo
    /\ file_results = <<>>
    /\ patch_result = NoPatchResult
    /\ tree = [p \in Paths |-> Absent]
    /\ branch = "created"
    /\ nsha = 0
    /\ faults = 0
    /\ others = 0
    /\ log = <<>>
    /\ first = NoFirstCall
    /\ event = None
    /\ wenv = None
    /\ wpc = "idle"
    /\ response = None
    /\ invoked = <<>>
    /\ NoOtherRuns
    /\ NoHandler
    /\ bpc = "check"
    /\ clock = 0
    /\ timeout \in 1..MaxTimeout
    /\ build_status = "NONE"
    /\ completion_result = NoOutcome
    /\ polls = 0

\* Lines 198-206: elapsed > timeout_seconds returns the status TIMEOUT
CheckTimeout ==
    /\ bpc = "check"
    /\ IF clock > timeout
       THEN bpc' = "returned" /\ completion_result' = [success |-> FALSE, status |-> "TIMEOUT"]
       ELSE bpc' = "query" /\ UNCHANGED completion_result
    /\ UNCHANGED <<clock, timeout, build_status, polls, cvars, hvars, wvars, first, pvars, rvars>>

\* Lines 208-227: get_build_status; a failed query is returned as it is, a
\* complete status ends the loop
QueryStatus ==
    /\ bpc = "query"
    /\ polls' = polls + 1
    /\ \/ /\ bpc' = "returned"
          /\ completion_result' = [success |-> FALSE, status |-> "ABSENT"]
          /\ UNCHANGED build_status
       \/ \E s \in BuildStatuses :
            /\ build_status' = s
            /\ IF s \in Complete
               THEN bpc' = "returned"
                    /\ completion_result' = [success |-> BuildSucceeded(s), status |-> s]
               ELSE bpc' = "sleep" /\ UNCHANGED completion_result
    /\ UNCHANGED <<clock, timeout, cvars, hvars, wvars, first, pvars, rvars>>

\* Line 231: time.sleep(10), the clock advancing by the interval at least
Sleep ==
    /\ bpc = "sleep"
    /\ \E d \in 1..MaxAdvance : clock' = clock + d
    /\ bpc' = "check"
    /\ UNCHANGED <<timeout, build_status, completion_result, polls, cvars, hvars, wvars, first, pvars, rvars>>

NextWait ==
    \/ CheckTimeout
    \/ QueryStatus
    \/ Sleep

\* The loop is one thread that runs on: a step that can be taken is taken
SpecWait == InitWait /\ [][NextWait]_vars /\ WF_vars(NextWait)

-----------------------------------------------------------------------------
(* Properties *)

Requests(ops) == {i \in 1..Len(log) : log[i].op \in ops}

FileRequests == Requests({"GET_FILE", "PUT_UPDATE", "PUT_CREATE", "DELETE_FILE"})

WriteRequests == Requests({"PUT_UPDATE", "PUT_CREATE", "DELETE_FILE"})

PRRequests == Requests({"POST_PULL"})

\* The run got past create_branch
BranchCreated ==
    \E i \in 1..Len(results.actions_taken) : results.actions_taken[i] = "Created branch"

Reported(what) == \E i \in 1..Len(results.errors) : results.errors[i].what = what

\* C1: when the run has ended and at least one file operation succeeded, a
\* pull-request request was sent after all files were attempted; with three
\* files of which only the second failed, with Conflict, the patch result
\* counts 3 processed, 2 successful, success false, and the request was sent.
C1_PartialFailureOpensPR ==
    /\ (pc = "done" /\ CountSuccess(file_results) > 0)
          => PRRequests # {}
    /\ (/\ pc = "done"
        /\ Len(file_results) = 3
        /\ file_results[1].success
        /\ ~file_results[2].success /\ file_results[2].error.status = 409
        /\ file_results[3].success)
          => /\ patch_result.files_processed = 3
             /\ patch_result.files_successful = 2
             /\ ~patch_result.success
             /\ ~results.success
             /\ PRRequests # {}

\* C2: when the patch holds at least one file change and every file operation
\* of the run failed, no pull-request request is sent and success is false.
C2_AllFilesFailNoPR ==
    (/\ Len(patch_files.keys) > 0
     /\ patch_result.returned
     /\ CountSuccess(file_results) = 0)
        => /\ PRRequests = {}
           /\ ~results.success

C2_Witness ==
    /\ pc = "done"
    /\ patch_result.returned
    /\ Len(file_results) >= 2
    /\ CountSuccess(file_results) = 0

\* C3: a run that reports success had every file operation succeed, for every
\* planned file, and its pull-request request was accepted.
C3_SuccessMeansAllFilesAndPR ==
    results.success
        => /\ \A i \in 1..Len(file_results) : file_results[i].success
           /\ Len(file_results) = Len(patch_files.keys)
           /\ \E i \in PRRequests : log[i].ok

C3_Witness ==
    /\ results.success
    /\ Len(file_results) >= 2

\* A request of create_branch that failed: the default-branch resolution (the
\* first request of a run without base branch), the head-hash lookup, or the
\* create-branch request
BranchSetupFailed(i) ==
    /\ ~log[i].ok
    /\ \/ log[i].op \in {"GET_REF", "POST_REF"}
       \/ log[i].op = "GET_REPO" /\ i = 1 /\ ~env.default_branch

\* C4: once a request of the branch setup failed, it is the last request of
\* the run: the run is over with success false and the branch error reported,
\* no file was processed and no patch result exists.
C4_BranchFailureAborts ==
    \A i \in 1..Len(log) :
        BranchSetupFailed(i)
            => /\ i = Len(log)
               /\ pc = "done"
               /\ ~results.success
               /\ Reported("Failed to create branch")
               /\ file_results = <<>>
               /\ ~patch_result.returned
               /\ branch # "created"

C4_Witness ==
    /\ pc = "done"
    /\ branch = "taken"
    /\ Len(log) > 0
    /\ log[Len(log)].op = "POST_REF"
    /\ log[Len(log)].status = 422
    /\ \E i \in 1..Len(results.errors) :
        /\ results.errors[i].what = "Failed to create branch"
        /\ results.errors[i].error.status = 422

\* The run is over, past the branch setup, and its patch has an empty change
\* set: the text is empty or absent, or apply_patch parsed it to an empty dict
EndedWithEmptyChangeSet ==
    /\ pc = "done"
    /\ BranchCreated
    /\ ~Truthy(agent_response.patch) \/ (patch_result.returned /\ patch_files.keys = <<>>)

EmptyPatchReported ==
    \E i \in 1..Len(results.errors) :
        /\ results.errors[i].what = "Failed to apply patch"
        /\ results.errors[i].error.msg = "No valid file changes found in patch"

C6_OneResultPerPlannedPath ==
    (patch_result.returned /\ Len(patch_files.keys) > 0)
        => /\ Len(patch_result.results) = Len(patch_files.keys)
           /\ \A i \in 1..Len(patch_result.results) :
                patch_result.results[i].file_path = patch_files.keys[i]
           /\ patch_result.files_processed = Len(patch_files.keys)
           /\ patch_result.files_successful = CountSuccess(patch_result.results)
           /\ patch_result.success
                = (patch_result.files_successful = patch_result.files_processed)

\* A patch of one section for one path, one hunk, added and context lines only
SingleHunkPatches ==
    { Text(<<OldF, NewF, Hunk, AddX, CtxY>>, TRUE),
      Text(<<OldF, NewF, Hunk, AddX, CtxY>>, FALSE) }

\* C7: a single-file, single-hunk patch of added and context lines, applied
\* to a branch where the path is looked up and not found, results in exactly
\* one write request, the PUT that creates the path with the added and
\* context lines in order as content.
C7_SingleHunkYieldsCreate ==
    (/\ agent_response.patch \in SingleHunkPatches
     /\ patch_result.returned
     /\ \E i \in Requests({"GET_FILE"}) : log[i].status = 404)
        => /\ Cardinality(WriteRequests) = 1
           /\ \A i \in WriteRequests :
                /\ log[i].op = "PUT_CREATE"
                /\ log[i].path = <<"f">>
                /\ log[i].content = B64Encode(Utf8Encode(Join(<<<<"x">>, <<"y">>>>)))

\* The text has two `--- a/` header lines for one path
TwoSectionsForOnePath(patch) ==
    /\ Truthy(patch)
    /\ LET lines == Split(patch) IN
       \E i, j \in 1..Len(lines) :
        /\ i < j
        /\ StartsWith(lines[i], OldMarker)
        /\ lines[i] = lines[j]

\* C8: a patch with two `--- a/` sections for one path never yields a change
\* set; apply_patch returns an error for it and no file request is sent.
C8_DuplicatePathIsConflict ==
    TwoSectionsForOnePath(agent_response.patch)
        => /\ patch_files = EmptyDict
           /\ FileRequests = {}
           /\ patch_result.returned => ~patch_result.success

\* C9: every PUT of update_file and every DELETE carries a revision hash,
\* the one a successful lookup of the same path returned earlier in the run.
C9_UpdateAndDeleteCarryFetchedHash ==
    \A i \in Requests({"PUT_UPDATE", "DELETE_FILE"}) :
        /\ log[i].sha # None
        /\ \E j \in Requests({"GET_FILE"}) :
            /\ j < i
            /\ log[j].path = log[i].path
            /\ log[j].ok
            /\ log[j].got = log[i].sha

\* C10: the PUT of create_file is sent only after a lookup of the path
\* answered 404, and the PUT of update_file only after a successful lookup,
\* with the hash that lookup returned.
C10_CreateOnlyOnNotFound ==
    /\ \A i \in Requests({"PUT_CREATE"}) :
        /\ i > 1
        /\ log[i - 1].op = "GET_FILE"
        /\ log[i - 1].path = log[i].path
        /\ log[i - 1].status = 404
    /\ \A i \in Requests({"PUT_UPDATE"}) :
        /\ i > 1
        /\ log[i - 1].op = "GET_FILE"
        /\ log[i - 1].path = log[i].path
        /\ log[i - 1].ok
        /\ log[i].sha = log[i - 1].got
        /\ log[i].sha # None

\* The change set plans path with empty content
PlannedDeletion(path) ==
    \E k \in 1..Len(patch_files.keys) :
        patch_files.keys[k] = path /\ patch_files.vals[k] = None

\* C11: for a path planned with empty content, a successful lookup is
\* followed by a DELETE of that path carrying the hash the lookup returned;
\* a lookup answered 404 is followed by no write or delete request for the
\* path, and the path is recorded as a failed operation.
C11_EmptyContentDeletesOrFails ==
    \A i \in Requests({"GET_FILE"}) :
        PlannedDeletion(log[i].path) =>
            /\ (log[i].ok /\ i < Len(log))
                  => /\ log[i + 1].op = "DELETE_FILE"
                     /\ log[i + 1].path = log[i].path
                     /\ log[i + 1].sha = log[i].got
                     /\ log[i + 1].sha # None
            /\ log[i].status = 404
                  => /\ \A j \in WriteRequests : log[j].path # log[i].path
                     /\ \E k \in 1..Len(file_results) :
                          /\ file_results[k].file_path = log[i].path
                          /\ ~file_results[k].success

\* The requests answered 403 with the rate-limit text
RateLimitedRequests == {i \in 1..Len(log) : log[i].status = RateLimited.status}

\* The remote, as it is now, accepts the write request i sent again
WouldAccept(i) ==
    IF log[i].op = "DELETE_FILE"
    THEN RemoteDeleteStatus(tree, log[i].path, log[i].sha) < 400
    ELSE RemotePutStatus(tree, log[i].path, log[i].sha) < 400

\* C12: a write request answered once with the rate limit, on a remote that
\* accepts the same request when it is sent again, does not leave a failed
\* result for its path.
C12_RateLimitedIsRetried ==
    \A i \in WriteRequests :
        (/\ i \in RateLimitedRequests
         /\ Cardinality(RateLimitedRequests) = 1
         /\ WouldAccept(i))
            => \A k \in 1..Len(file_results) :
                    file_results[k].file_path = log[i].path
                        => file_results[k].success

\* The write requests of the second call of apply_patch
SecondCallWrites == {i \in WriteRequests : first.done /\ i > first.requests}

\* What a path holds, whatever its revision hash
Held(t, path) == [kind |-> t[path].kind, bytes |-> t[path].bytes]

\* The branch as the first call left it holds what the write request i asks for
AlreadyMatches(i) ==
    IF log[i].op = "DELETE_FILE"
    THEN first.tree[log[i].path].kind = "absent"
    ELSE Held(first.tree, log[i].path)
            = [kind |-> "file", bytes |-> B64Decode(log[i].content)]

\* C13: when apply_patch succeeded and is called again with the same patch
\* on the branch it left, the second call sends no write for a path whose
\* content already matches, unless that write is refused with 409 Conflict;
\* and once the second call has returned every planned path holds what it
\* held after the first call.
C13_SecondCallIsNoOpOrConflict ==
    first.success
        => /\ \A i \in SecondCallWrites :
                AlreadyMatches(i) => (~log[i].ok /\ log[i].status = 409)
           /\ patch_result.returned
                => \A k \in 1..Len(patch_files.keys) :
                        Held(tree, patch_files.keys[k])
                            = Held(first.tree, patch_files.keys[k])

\* C14: when create_file succeeded and the get_file_content that follows it
\* on the same path was answered by the repository, the result is a success
\* whose content is the string written, the empty string included.
C14_CreateThenGetReturnsContent ==
    (/\ pc = "returned"
     /\ file_results[1].success
     /\ log[Len(log)].ok)
        => /\ file_info.success
           /\ file_info.content = file_content

\* str.count(c)
RECURSIVE Count(_, _)
Count(s, c) ==
    IF s = <<>> THEN 0
    ELSE (IF Head(s) = c THEN 1 ELSE 0) + Count(Tail(s), c)

\* A repository identifier 'owner/name'
WellFormedRepo(name) ==
    /\ name # None
    /\ Count(name, "/") = 1
    /\ Head(name) # "/"
    /\ name[Len(name)] # "/"

\* C15: a run that is to fix the issue, without GitHub credential or with a
\* missing or malformed repository identifier, sends no request to the
\* repository, the build runner or the artifact store, and ends with success
\* false and an error.
C15_ConfigFailuresSendNothing ==
    (/\ agent_response.can_auto_fix
     /\ ~env.GITHUB_TOKEN \/ ~WellFormedRepo(env.full_name))
        => /\ log = <<>>
           /\ pc = "done" => (~results.success /\ results.errors # <<>>)

\* The signature of the event is the digest of its body under GITHUB_SECRET
SignedUnderSecret ==
    /\ Truthy(wenv.GITHUB_SECRET)
    /\ event.signature \in { HexDigest(wenv.GITHUB_SECRET, body),
                             Sha256Prefix \o HexDigest(wenv.GITHUB_SECRET, body) }

\* C16: the orchestrator is invoked only for an event whose signature header
\* is the HMAC-SHA256 of the raw body under the shared secret, whether the
\* secret is configured or not.
C16_InvokedOnlyWhenSigned == invoked # <<>> => SignedUnderSecret

\* The issue is assigned, closed, or carries a skip label
Ineligible(issue) ==
    \/ issue.assignee # ""
    \/ issue.state = "closed"
    \/ \E i \in 1..Len(issue.labels) :
         issue.labels[i] \in {"needs-review", "complex", "breaking-change", "security"}

\* The event gets as far as the eligibility test: its signature is accepted,
\* its body is JSON, it is an `issues` event with a supported action, and it
\* carries an issue and a repository
ReachesEligibility ==
    /\ Truthy(wenv.GITHUB_SECRET) => SignedUnderSecret
    /\ JsonLoads(body).ok
    /\ event.event_type = "issues"
    /\ JsonLoads(body).value.action \in {"opened", "reopened", "edited"}
    /\ JsonLoads(body).value.issue.present
    /\ JsonLoads(body).value.repository

\* C17: every payload handed to the orchestrator is an `issues` event with
\* action opened, reopened or edited whose issue is unassigned, open and
\* without skip label; an event with an assigned, closed or skip-labelled
\* issue is answered 200 'Issue not eligible for processing' and nothing is
\* handed to the orchestrator.
C17_EligibilityGate ==
    /\ \A i \in 1..Len(invoked) :
        /\ invoked[i].event_type = "issues"
        /\ invoked[i].action \in {"opened", "reopened", "edited"}
        /\ invoked[i].issue.state = "open"
        /\ ~Ineligible(invoked[i].issue)
    /\ (/\ wpc = "answered"
        /\ ReachesEligibility
        /\ Ineligible(JsonLoads(body).value.issue))
          => /\ response = [statusCode |-> 200,
                            message |-> "Issue not eligible for processing"]
             /\ invoked = <<>>

C17_Witness ==
    /\ wpc = "answered"
    /\ ReachesEligibility
    /\ wenv.ORCHESTRATOR_FUNCTION
    /\ JsonLoads(body).value.issue
         = [present |-> TRUE, assignee |-> "", state |-> "open",
            labels |-> <<"bug", "complex">>]
    /\ response.message = "Issue not eligible for processing"

\* The event of the end-to-end test: an `issues` event, action opened, with
\* repository and an open, unassigned issue without labels, and the
\* placeholder in the signature header
EndToEndEvent ==
    /\ event.event_type = "issues"
    /\ event.signature = Placeholder
    /\ body = JsonDumps([action |-> "opened",
                         issue |-> [present |-> TRUE, assignee |-> "",
                                    state |-> "open", labels |-> <<>>],
                         repository |-> TRUE])

\* C18: lambda_handler answers the event of the end-to-end test with
\* statusCode 200.
C18_EndToEndEventAnswered200 ==
    (wpc = "answered" /\ EndToEndEvent) => response.statusCode = 200

\* The branch-creation request i was accepted
Created(i) == log[i].op = "POST_REF" /\ log[i].ok

\* C19: every file request comes after an accepted branch-creation request
\* and names the branch that request created, never the base branch; a
\* pull-request request comes after the last file request, when every file of
\* the change set has its result, and has that branch as head.
C19_BranchThenFilesThenPR ==
    /\ \A i \in FileRequests :
        /\ \E j \in 1..(i - 1) : Created(j) /\ log[j].ref = log[i].ref
        /\ log[i].ref # base_branch
    /\ \A i \in PRRequests :
        /\ \E j \in 1..(i - 1) : Created(j) /\ log[j].ref = log[i].ref
        /\ \A k \in FileRequests : k < i
        /\ Len(file_results) = Len(patch_files.keys)

C19_Witness ==
    /\ pc = "done"
    /\ Len(file_results) = Cardinality(Paths)
    /\ Cardinality(WriteRequests) = Cardinality(Paths)
    /\ PRRequests # {}

\* The paths of the `--- a/` lines of the text, each once, in the order of
\* their first line
RECURSIVE FirstAppearances(_, _)
FirstAppearances(lines, seen) ==
    IF lines = <<>> THEN seen
    ELSE LET line == Head(lines)
             path == Slice(line, Len(OldMarker))
         IN  IF StartsWith(line, OldMarker)
                /\ \A k \in 1..Len(seen) : seen[k] # path
             THEN FirstAppearances(Tail(lines), Append(seen, path))
             ELSE FirstAppearances(Tail(lines), seen)

\* Position of a path in the plan
PlanIndex(path) ==
    CHOOSE k \in 1..Len(patch_files.keys) : patch_files.keys[k] = path

\* The plan lists the paths in the order of their first appearance in the
\* patch, and the file requests sent so far go through the plan in that
\* order: all requests of a path come before the first request of the next
FilesInPatchOrder ==
    patch_files.keys # <<>>
        => /\ patch_files.keys = FirstAppearances(Split(agent_response.patch), <<>>)
           /\ \A a, b \in FileRequests :
                a < b => PlanIndex(log[a].path) <= PlanIndex(log[b].path)
           /\ \A a \in FileRequests :
                PlanIndex(log[a].path) <= Len(file_results) + 1

\* Every step of the run sends at most one request, answered within the step
OneRequestAtATime == [][Len(log') <= Len(log) + 1]_vars

\* C20: the files of a patch are processed one at a time, in the order of
\* their first appearance in the patch: every request of one path is answered
\* before the first request of the next path is sent, and no step has more
\* than one request under way.
C20_FilesSequentialInPatchOrder == []FilesInPatchOrder /\ OneRequestAtATime

C20_Witness ==
    /\ Len(patch_files.keys) = Cardinality(Paths)
    /\ Len(file_results) = Cardinality(Paths)
    /\ \E a, b \in WriteRequests : log[a].path # log[b].path

\* The lookups of the path of request i sent before it
LookupsBefore(i) ==
    {j \in Requests({"GET_FILE"}) : j < i /\ log[j].path = log[i].path}

\* The most recent of them
LastLookupBefore(i) ==
    CHOOSE j \in LookupsBefore(i) : \A k \in LookupsBefore(i) : k <= j

\* A write refused with 409 is not sent again, its path is recorded as
\* failed, and the path holds what the other writer committed
ConflictIsFinal(i) ==
    /\ \A k \in FileRequests : k > i => log[k].path # log[i].path
    /\ \E k \in 1..Len(file_results) :
        /\ file_results[k].file_path = log[i].path
        /\ ~file_results[k].success
    /\ tree[log[i].path].kind = "file"
    /\ tree[log[i].path].bytes = <<"o">>

\* C21: every Update and Delete carries the hash that the run's most recent
\* lookup of the path returned; a write that another writer's commit made
\* stale is refused with 409, is not retried, leaves the path recorded as
\* failed and leaves the other writer's content in place.
C21_WritesCarryLatestHash ==
    \A i \in Requests({"PUT_UPDATE", "DELETE_FILE"}) :
        /\ LookupsBefore(i) # {}
        /\ log[LastLookupBefore(i)].ok
        /\ log[i].sha = log[LastLookupBefore(i)].got
        /\ log[i].status = 409 => ConflictIsFinal(i)

\* What the accepted write request i leaves at its path
Produced(i) ==
    IF log[i].op = "DELETE_FILE"
    THEN [kind |-> "absent", bytes |-> <<>>]
    ELSE [kind |-> "file", bytes |-> B64Decode(log[i].content)]

\* C22: whatever fails later in the run, a path written or deleted by an
\* accepted request gets no further request from the run and holds what
\* that request produced, and the branch created stays.
C22_NoRollback ==
    \A i \in WriteRequests :
        log[i].ok
            => /\ \A k \in FileRequests : k > i => log[k].path # log[i].path
               /\ Held(tree, log[i].path) = Produced(i)
               /\ branch = "created"

C22_Witness ==
    /\ pc = "done"
    /\ Len(file_results) = 2
    /\ file_results[1].success
    /\ ~file_results[2].success
    /\ \E i \in WriteRequests : log[i].ok /\ log[i].path = file_results[1].file_path

\* The lines read after the opening headers
Body ==
    LET lines == Split(ptext) IN SubSeq(lines, Len(Opening) + 1, Len(lines))

IsHeader(line) == StartsWith(line, OldMarker) \/ StartsWith(line, NewMarker)

IsHunkStart(line) == StartsWith(line, <<"@", "@">>)

\* An added or a context line
IsKept(line) == StartsWith(line, <<"+">>) \/ StartsWith(line, <<" ">>)

\* Neither `+`, space, `-`, `@@` nor a file header
IsUnrecognized(line) ==
    ~(IsHeader(line) \/ IsHunkStart(line) \/ IsKept(line) \/ StartsWith(line, <<"-">>))

\* The added and context lines of lines, without their first character
Kept(lines) ==
    LET kept == SelectSeq(lines, IsKept)
    IN  [i \in 1..Len(kept) |-> Slice(kept[i], 1)]

\* The text is one section: no header after the opening
OneSection(lines) == \A i \in 1..Len(lines) : ~IsHeader(lines[i])

HunkStarts(lines) == {i \in 1..Len(lines) : IsHunkStart(lines[i])}

\* The lines after the last hunk header
LastHunk(lines) ==
    LET last == CHOOSE i \in HunkStarts(lines) : \A k \in HunkStarts(lines) : k <= i
    IN  SubSeq(lines, last + 1, Len(lines))

Stores(lines) ==
    {i \in 1..Len(lines) :
        IsUnrecognized(lines[i]) /\ Kept(SubSeq(lines, 1, i)) # <<>>}

\* What the parser holds for f when the line at index i has stored
StoredAt(lines, i) == Join(Kept(SubSeq(lines, 1, i)))

\* C24: in one section, the first unrecognized line that stores
\* content fixes the content of the path; the lines after it do not change
\* it.
C24_UnrecognizedLineEndsContent ==
    LET lines == Body IN
    (OneSection(lines) /\ Stores(lines) # {})
        => LET fst == CHOOSE i \in Stores(lines) : \A k \in Stores(lines) : i <= k
           IN  DictGet(pst.files, <<"f">>) = StoredAt(lines, fst)

\* C25: once the patch was applied in full and the run is over, the
\* pull-request request was sent whatever the build did, success is the
\* outcome of the pull request, and the build identifier is in the results
\* whenever a build was started.
C25_BuildOutsideCriticalPath ==
    /\ (pc = "done" /\ patch_result.success)
          => /\ PRRequests # {}
             /\ results.success = (\E j \in PRRequests : log[j].ok)
    /\ \A i \in Requests({"START_BUILD"}) : log[i].ok => results.test_build_id

\* A section of lines for path holds an added or a context line
SectionHasKept(lines, path) ==
    \E i, j \in 1..Len(lines) :
        /\ i < j
        /\ lines[i] = OldMarker \o path
        /\ IsKept(lines[j]) /\ ~IsHeader(lines[j])
        /\ \A k \in (i + 1)..(j - 1) : ~StartsWith(lines[k], OldMarker)

\* C26: a DELETE request is sent for a path only if no section of the patch
\* for that path holds an added or a context line.
C26_DeleteOnlyWithoutContent ==
    \A i \in Requests({"DELETE_FILE"}) :
        ~SectionHasKept(Split(agent_response.patch), log[i].path)

\* The lines of the opening section: up to the next header
OwnSection(lines) ==
    LET headers == {i \in 1..Len(lines) : IsHeader(lines[i])}
    IN  IF headers = {} THEN lines
        ELSE SubSeq(lines, 1, (CHOOSE i \in headers : \A k \in headers : i <= k) - 1)

\* C27: when no later section is for f, the entry of f is what the lines of
\* its own section stored, whatever sections and headers follow, a
\* `--- /dev/null` header and a `+++ b/` header for another path included.
C27_SectionsAreIsolated ==
    LET lines == Body
        own == OwnSection(lines)
    IN  (\A i \in 1..Len(lines) : lines[i] # OldF)
            => DictGet(pst.files, <<"f">>) =
                IF Stores(own) = {} THEN None
                ELSE StoredAt(own, CHOOSE i \in Stores(own) :
                                      \A k \in Stores(own) : k <= i)

\* The requests of run r that look a file up or write one
RunFileRequests(r) ==
    {i \in 1..Len(log) : log[i].run = r
                           /\ log[i].op \in {"GET_FILE", "PUT_CREATE"}}

\* The create-branch requests that succeeded for a name
RunCreations(name) ==
    {i \in 1..Len(log) : log[i].op = "POST_REF" /\ log[i].ref = name /\ log[i].ok}

\* The error _make_request returns for the answer 422 of a taken name
AlreadyExists == _make_request(Response(422)).error

\* Run r asked for a branch that another run had created before
LostTheRace(r) ==
    \E i \in 1..Len(log) :
        /\ log[i].op = "POST_REF"
        /\ log[i].run = r
        /\ \E k \in 1..(i - 1) : k \in RunCreations(RunBranch(r)) /\ log[k].run # r

\* C28: when two concurrent runs compute the same branch name, the
\* create-branch request succeeds for at most one of them; the other one
\* returns with the error of the taken name (or of a transient failure of its
\* request) without having sent any file lookup or write; and all the file
\* requests on one branch come from one run.
C28_ConcurrentRunsNeverShareABranch ==
    /\ \A r \in RunIds : Cardinality(RunCreations(RunBranch(r))) <= 1
    /\ \A r \in RunIds :
        LostTheRace(r) =>
            /\ runs[r].pc = "done"
            /\ ~runs[r].created
            /\ runs[r].error \in {AlreadyExists} \cup {_make_request(f).error : f \in Faults}
            /\ RunFileRequests(r) = {}
    /\ \A r, q \in RunIds :
        \A i \in RunFileRequests(r), k \in RunFileRequests(q) :
            log[i].ref = log[k].ref => r = q

C28_Witness ==
    /\ RunBranch(1) = RunBranch(2)
    /\ LostTheRace(2)
    /\ runs[2].error = AlreadyExists
    /\ runs[1].pc = "done"
    /\ \E i \in RunFileRequests(1) : log[i].op = "PUT_CREATE" /\ log[i].ok

\* The run ended without a positive decision
NoPositiveDecision == hpc = "answered" /\ ~CanAutoFix(decision)

\* C29: the reasoning call's failures give can_auto_fix false with confidence
\* 0 (the first conjunct); and a run whose decision has can_auto_fix false or
\* absent sends no request at all and never enters execute_agent_actions, and
\* it answers statusCode 200 with success false (the answer that follows
\* store_agent_memory at lines 407-434).
C29_NoActionWithoutPositiveDecision ==
    /\ \A reply \in Replies :
        reply.kind # "json" =>
            /\ ~CanAutoFix(call_bedrock_agent(reply))
            /\ call_bedrock_agent(reply).confidence = "0.0"
    /\ NoPositiveDecision =>
        /\ log = <<>>
        /\ pc = "idle"
        /\ answer = [statusCode |-> 200, success |-> FALSE]

\* What holds of the loop at every moment
WaitReturns ==
    /\ build_status \in Complete => bpc = "returned" /\ completion_result.status = build_status
    /\ polls <= timeout + 1
    /\ bpc = "returned" =>
        /\ completion_result.status \in Complete \cup {"ABSENT", "TIMEOUT"}
        /\ completion_result.status = "TIMEOUT" => clock > timeout
        /\ completion_result.success <=> build_status = "SUCCEEDED"

\* C30: with a clock that advances over each sleep, wait_for_build_completion
\* always returns; it returns at once for the status SUCCEEDED, FAILED,
\* STOPPED or TIMED_OUT, for a failed status query, and with the status
\* TIMEOUT once the elapsed time exceeds the timeout, after timeout + 1
\* queries at most; and success is true exactly when the last status a
\* query returned is SUCCEEDED.
C30_WaitTerminates == []WaitReturns /\ <>(bpc = "returned")

C30_Witness ==
    /\ bpc = "returned"
    /\ completion_result = [success |-> FALSE, status |-> "TIMEOUT"]
    /\ build_status = "FAULT"
    /\ polls = timeout + 1
====
